---- MODULE Spec2Model ----
(***************************************************************************)
(* Model of src/Camera.cpp (Pioneer): the CameraContext frame lifecycle,   *)
(* the light walk, Camera::Update (visibility and draw order),             *)
(* Camera::Draw and the eclipse routines.                                  *)
(*                                                                         *)
(* Numbers are exact: lengths are integers (or fractions kept as           *)
(* numerator/denominator), so float rounding and NaN are out of scope.     *)
(***************************************************************************)
EXTENDS Integers, Sequences, FiniteSets, TLC

VARIABLES
    \* CameraContext
    m_frame,        \* frame the camera is attached to (0 = FrameId::Invalid)
    m_pos,          \* camera position inside m_frame
    m_camFrame,     \* temporary camera frame (0 = FrameId::Invalid)
    ctx,            \* "alive", "aborted" (an assert failed) or "destroyed"
    camFrames,      \* camera frames alive in the Frame registry
    begun,          \* BeginFrame calls that completed
    ended,          \* EndFrame calls that completed
    \* the scene the camera reads (Space)
    space,          \* Space::GetBodies(), a sequence of bodies
    frames,         \* the frame hierarchy, in depth-first pre-order
    \* Camera
    m_sortedBodies, \* the draw list
    m_lightSources, \* the active lights
    lightsFrame,    \* camera frame the lights were selected for (0 = never)
    updateFrame,    \* camera frame of the last Update (0 = never)
    tintLights,     \* what the last Update found in m_lightSources
    tintFrame,      \* lightsFrame as the last Update found it
    rendered,       \* what the Draw step just issued to the renderer
    \* eclipse routines
    shadows,        \* the file-static scratch vector
    result          \* what the eclipse routine just called returned

ctxVars == <<m_frame, m_pos, m_camFrame, ctx, camFrames, begun, ended>>
sceneVars == <<space, frames>>
camVars == <<m_sortedBodies, m_lightSources, lightsFrame, updateFrame,
             tintLights, tintFrame, rendered>>
shadowVars == <<shadows, result>>
\* what a step leaves alone when it is no step of the camera; rendered and
\* result belong to the step that produced them and are cleared by any other
keptVars == <<space, frames, m_sortedBodies, m_lightSources, lightsFrame,
              updateFrame, tintLights, tintFrame, shadows>>
vars == <<ctxVars, sceneVars, camVars, shadowVars>>

----------------------------------------------------------------------------
\* Bounds of the model and constants of the program

MaxFrames == 2          \* camera frames begun in one run
MaxSceneFrames == 2     \* frames a context can be attached to
MaxPos == 2             \* camera positions 0..MaxPos
MaxBodies == 3          \* bodies in a draw-order scene
MaxTreeFrames == 6      \* frames in a hierarchy of the light walk
MaxCoord == 2           \* grid columns 0..MaxCoord of an eclipse scene
MaxShadowsWanted == 2   \* n of PrincipalShadows is 0..MaxShadowsWanted

OBJECT_HIDDEN_PIXEL_THRESHOLD == 2
BILLBOARD_PIXEL_THRESHOLD == 8
LightsFull == 3         \* the walk stops once lights.size() > 3
MaxLights == 4          \* the i < 4 of PrincipalShadows
ScreenHeight == 4       \* Graphics::GetScreenHeight()
FovFactor == 1          \* Graphics::GetFovFactor()

Invalid == 0            \* FrameId::Invalid
NoBody == 0             \* a null Body pointer
\* no eclipse routine was just called, nothing was just drawn
NoResult == [op |-> "none", light |-> 0, body |-> 0, n |-> 0, product |-> <<>>, out |-> <<>>]
NotDrawn == [drawn |-> FALSE, exclude |-> 0, lights |-> <<>>, calls |-> <<>>]

Max(a, b) == IF a >= b THEN a ELSE b
Range(s) == {s[i] : i \in 1..Len(s)}

----------------------------------------------------------------------------
\* CameraContext

Valid(id) == id # Invalid

NoOutput == rendered' = NotDrawn /\ result' = NoResult

\* Frame::CreateCameraFrame: a fresh id above the scene's frames
NewCameraFrameId == MaxSceneFrames + begun + 1

SetCameraFrame(f) ==
    /\ ctx = "alive"
    /\ m_frame' = f
    /\ UNCHANGED <<m_pos, m_camFrame, ctx, camFrames, begun, ended, keptVars>>
    /\ NoOutput

SetCameraPosition(p) ==
    /\ ctx = "alive"
    /\ m_pos' = p
    /\ UNCHANGED <<m_frame, m_camFrame, ctx, camFrames, begun, ended, keptVars>>
    /\ NoOutput

BeginFrameBody ==
    IF Valid(m_frame) /\ ~Valid(m_camFrame)
    THEN /\ m_camFrame' = NewCameraFrameId
         /\ camFrames' = camFrames \cup
                {[id |-> NewCameraFrameId, parent |-> m_frame, pos |-> m_pos]}
         /\ begun' = begun + 1
         /\ UNCHANGED <<m_frame, m_pos, ctx, ended>>
    ELSE /\ ctx' = "aborted"
         /\ UNCHANGED <<m_frame, m_pos, m_camFrame, camFrames, begun, ended>>

BeginFrame ==
    /\ ctx = "alive"
    /\ begun < MaxFrames
    /\ BeginFrameBody
    /\ UNCHANGED keptVars
    /\ NoOutput

EndFrameNoResetBody(after) ==
    IF Valid(m_frame) /\ Valid(m_camFrame)
    THEN /\ camFrames' = {c \in camFrames : c.id # m_camFrame}
         /\ ended' = ended + 1
         /\ ctx' = after
         /\ UNCHANGED <<m_frame, m_pos, m_camFrame, begun>>
    ELSE /\ ctx' = "aborted"
         /\ UNCHANGED <<m_frame, m_pos, m_camFrame, camFrames, begun, ended>>

\* the body of EndFrame; `after` is the context's state once it returns
EndFrameBody(after) ==
    IF Valid(m_frame) /\ Valid(m_camFrame)
    THEN /\ camFrames' = {c \in camFrames : c.id # m_camFrame}
         /\ m_camFrame' = Invalid
         /\ ended' = ended + 1
         /\ ctx' = after
         /\ UNCHANGED <<m_frame, m_pos, begun>>
    ELSE /\ ctx' = "aborted"
         /\ UNCHANGED <<m_frame, m_pos, m_camFrame, camFrames, begun, ended>>

EndFrame ==
    /\ ctx = "alive"
    /\ EndFrameBody("alive")
    /\ UNCHANGED keptVars
    /\ NoOutput

\* ~CameraContext: if (m_camFrame) EndFrame();
Destroy ==
    /\ ctx = "alive"
    /\ UNCHANGED keptVars
    /\ NoOutput
    /\ IF Valid(m_camFrame)
       THEN EndFrameBody("destroyed")
       ELSE /\ ctx' = "destroyed"
            /\ UNCHANGED <<m_frame, m_pos, m_camFrame, camFrames, begun, ended>>

----------------------------------------------------------------------------
\* The scene: bodies and the frame hierarchy

\* ObjectType::TERRAINBODY covers stars and planets
IsTerrainBody(b) == b.type \in {"STAR", "PLANET"}

\* Pi::game->GetPlayer()
PlayerOf(bodies) ==
    IF \E i \in 1..Len(bodies) : bodies[i].type = "PLAYER"
    THEN CHOOSE i \in 1..Len(bodies) :
            /\ bodies[i].type = "PLAYER"
            /\ \A j \in 1..(i - 1) : bodies[j].type # "PLAYER"
    ELSE NoBody

Indices(n) == [i \in 1..n |-> i]

\* Frame::GetChildren: frames are kept in depth-first pre-order, each with its
\* depth, so the children of f are the frames one level below it that follow
\* f before the hierarchy returns to f's level
Children(tree, f) ==
    SelectSeq(Indices(Len(tree)),
              LAMBDA j : /\ j > f
                         /\ tree[j].depth = tree[f].depth + 1
                         /\ \A k \in (f + 1)..j : tree[k].depth > tree[f].depth)

----------------------------------------------------------------------------
\* Light selection

White == <<"WHITE", 0>>
\* StarSystem::starRealColors[body->GetType()]
StarRealColor(body) == <<"starRealColors", body>>

LightsAtCapOffByOne(lights) == Len(lights) > LightsFull + 1

\* if (lights.size() > 3) return;
LightsAtCap(lights) == Len(lights) > LightsFull

IsLightFrameNoRotCheck(fr) ==
    fr.sbody # "NONE" /\ fr.sbody = "STAR"

\* body && !frame->IsRotFrame() && body->GetSuperType() == SUPERTYPE_STAR
IsLightFrame(fr) ==
    fr.sbody # "NONE" /\ ~fr.rot /\ fr.sbody = "STAR"

\* Camera::LightSource(frame->GetBody(), light)
LightOf(f, fr) ==
    [body |-> fr.body, diffuse |-> StarRealColor(fr.body), pos |-> f]

RECURSIVE position_system_lights(_, _, _), WalkChildren(_, _, _)
position_system_lights(tree, f, lights) ==
    IF LightsAtCap(lights)
    THEN lights
    ELSE WalkChildren(tree, Children(tree, f),
                      IF IsLightFrame(tree[f])
                      THEN Append(lights, LightOf(f, tree[f]))
                      ELSE lights)

\* for (FrameId kid : frame->GetChildren()) position_system_lights(...)
WalkChildren(tree, kids, lights) ==
    IF kids = <<>>
    THEN lights
    ELSE WalkChildren(tree, Tail(kids),
                      position_system_lights(tree, Head(kids), lights))

FallbackLight == [body |-> NoBody, diffuse |-> White, pos |-> 0]

SelectLightsNoFallback(tree) == position_system_lights(tree, 1, <<>>)

\* Camera::Draw: clear, walk from the root, fake a light when none was found
SelectLights(tree) ==
    LET found == position_system_lights(tree, 1, <<>>)
    IN IF found = <<>> THEN <<FallbackLight>> ELSE found

----------------------------------------------------------------------------
\* Camera::Update

\* pixSize as the fraction num/den (den = 0 is the code's division by zero,
\* an infinite size, below no threshold)
PixSize(b) ==
    [num |-> ScreenHeight * 2 * b.clipRadius, den |-> b.camDist * FovFactor]

FracLess(q, t) == q.num < t * q.den

BelowBillboardThresholdInclusive(pix) ==
    pix.num <= BILLBOARD_PIXEL_THRESHOLD * pix.den

\* pixSize < BILLBOARD_PIXEL_THRESHOLD
BelowBillboardThreshold(pix) == FracLess(pix, BILLBOARD_PIXEL_THRESHOLD)

\* pixSize < OBJECT_HIDDEN_PIXEL_THRESHOLD
BelowHiddenThreshold(pix) == FracLess(pix, OBJECT_HIDDEN_PIXEL_THRESHOLD)

\* std::max(1.0f, pixSize)
BillboardSize(pix) == IF FracLess(pix, 1) THEN [num |-> 1, den |-> 1] ELSE pix

BillboardColorUntinted(b, i, lights) ==
    [base |-> IF b.type = "STAR" THEN StarRealColor(i)
              ELSE IF b.type = "PLANET" THEN <<"albedo", i>>
              ELSE White,
     light |-> <<"none", 0>>,
     a |-> 255]

BillboardColor(b, i, lights) ==
    [base |-> IF b.type = "STAR" THEN StarRealColor(i)
              ELSE IF b.type = "PLANET" THEN <<"albedo", i>>
              ELSE White,
     light |-> IF lights # <<>> /\ b.type # "STAR"
               THEN lights[1].diffuse
               ELSE <<"none", 0>>,
     a |-> 255]

Unset == <<"unset", 0>>

\* one turn of the loop over the bodies: the entry pushed, or nothing
BodyAttrsOf(b, i, lights) ==
    IF b.drawExclude THEN <<>>
    ELSE IF ~b.inFrustum THEN <<>>
    ELSE LET pix == PixSize(b)
             attrs == [body |-> i, billboard |-> FALSE, camDist |-> b.camDist,
                       drawLast |-> b.drawLast,
                       billboardSize |-> Unset, billboardColor |-> Unset]
         IN IF IsTerrainBody(b)
            THEN IF BelowBillboardThreshold(pix)
                 THEN <<[attrs EXCEPT !.billboard = TRUE,
                                      !.billboardSize = BillboardSize(pix),
                                      !.billboardColor = BillboardColor(b, i, lights)]>>
                 ELSE <<attrs>>
            ELSE IF BelowHiddenThreshold(pix) THEN <<>> ELSE <<attrs>>

RECURSIVE CollectBodies(_, _, _)
CollectBodies(bodies, i, lights) ==
    IF i > Len(bodies)
    THEN <<>>
    ELSE BodyAttrsOf(bodies[i], i, lights) \o CollectBodies(bodies, i + 1, lights)

sort_BodyAttrsDrawLastFirst(a, b) ==
    IF a.drawLast /\ b.drawLast THEN a.camDist > b.camDist
    ELSE IF a.drawLast THEN TRUE
    ELSE IF b.drawLast THEN FALSE
    ELSE a.camDist > b.camDist

\* "should a be drawn before b?"
sort_BodyAttrs(a, b) ==
    IF a.drawLast /\ b.drawLast THEN a.camDist > b.camDist
    ELSE IF a.drawLast THEN FALSE
    ELSE IF b.drawLast THEN TRUE
    ELSE a.camDist > b.camDist

\* BodyAttrs' operator<, which std::list::sort() compares with
BodyAttrsLess(a, b) == sort_BodyAttrs(a, b)

\* std::list::sort is stable: an entry goes before the first one it must
\* precede
RECURSIVE InsertSorted(_, _)
InsertSorted(x, s) ==
    IF s = <<>> THEN <<x>>
    ELSE IF BodyAttrsLess(x, Head(s)) THEN <<x>> \o s
    ELSE <<Head(s)>> \o InsertSorted(x, Tail(s))

RECURSIVE SortedFrom(_, _)
SortedFrom(s, n) ==
    IF n = 0 THEN <<>> ELSE InsertSorted(s[n], SortedFrom(s, n - 1))

ListSort(s) == SortedFrom(s, Len(s))

Update ==
    /\ ctx = "alive"
    /\ Valid(m_camFrame)
    /\ m_sortedBodies' = ListSort(CollectBodies(space, 1, m_lightSources))
    /\ updateFrame' = m_camFrame
    /\ tintLights' = m_lightSources
    /\ tintFrame' = lightsFrame
    /\ NoOutput
    /\ UNCHANGED <<ctxVars, sceneVars, m_lightSources, lightsFrame, shadows>>

----------------------------------------------------------------------------
\* Eclipses

Dot(u, v) == u[1] * v[1] + u[2] * v[2]
Minus(u, v) == <<u[1] - v[1], u[2] - v[2]>>

\* b->GetSystemBody()->GetRadius() for a terrain body, GetPhysRadius() otherwise
OcclusionRadius(b) == IF IsTerrainBody(b) THEN b.sysRadius ELSE b.physRadius

\* b2->IsType(PLANET) || b2->IsType(STAR)
CanEclipse(b) == b.type \in {"PLANET", "STAR"}

IsBetweenOrBehind(lp, ll) == lp <= ll

\* !(perpDist <= 0 || perpDist > bLightPos.Length()), with
\* perpDist = lp / sqrt(ll) and bLightPos.Length() = sqrt(ll)
IsBetween(lp, ll) == lp > 0 /\ lp <= ll

\* the shadow of b2 on b under the light body, or nothing. Lengths are in units
\* of b's radius, as numerators over the common denominator den = ll * bRadius
\* (centreSq over den * den); occluder and light say where it came from.
ShadowOf(bodies, lightNum, lightBody, b, b2) ==
    LET bLightPos == Minus(bodies[lightBody].pos, bodies[b].pos)
        ll == Dot(bLightPos, bLightPos)
        bRadius == OcclusionRadius(bodies[b])
        lightRadius == bodies[lightBody].physRadius
        b2Radius == bodies[b2].sysRadius
        b2pos == Minus(bodies[b2].pos, bodies[b].pos)
        lp == Dot(bLightPos, b2pos)
        pp == Dot(b2pos, b2pos)
        srad == b2Radius * ll
        lrad == lightRadius * lp
        den == ll * bRadius
        centreSq == (pp * ll - lp * lp) * ll
    IN IF b2 = b \/ b2 = lightBody \/ ~CanEclipse(bodies[b2]) THEN <<>>
       \* a light at b's own place: the direction is NaN and no test passes
       ELSE IF ll = 0 THEN <<>>
       ELSE IF ~IsBetween(lp, ll) THEN <<>>
       \* srad / lrad < 0.01
       ELSE IF 100 * srad < lrad THEN <<>>
       \* projectedCentre.Length() < 1 + srad + lrad
       ELSE IF centreSq < (den + srad + lrad) * (den + srad + lrad)
       THEN <<[occluder |-> b2, light |-> lightNum, den |-> den,
               centreSq |-> centreSq, srad |-> srad, lrad |-> lrad]>>
       ELSE <<>>

RECURSIVE EclipsingBodies(_, _, _, _, _)
EclipsingBodies(bodies, lightNum, lightBody, b, b2) ==
    IF b2 > Len(bodies)
    THEN <<>>
    ELSE ShadowOf(bodies, lightNum, lightBody, b, b2)
            \o EclipsingBodies(bodies, lightNum, lightBody, b, b2 + 1)

\* Camera::CalcShadows(lightNum, b, shadowsOut); lights are numbered from 1
CalcShadows(lights, bodies, lightNum, b, shadowsOut) ==
    IF lights[lightNum].body = NoBody
    THEN shadowsOut
    ELSE shadowsOut \o EclipsingBodies(bodies, lightNum, lights[lightNum].body, b, 1)

\* Shadow's operator< (Camera.h): by srad / lrad
ShadowLess(s, t) == s.srad * t.lrad < t.srad * s.lrad

\* the arguments discCovered is called with for one shadow: squared dist, and rad,
\* each as a fraction; the float result of discCovered itself is left symbolic
DiscCoveredOf(s) ==
    [distSq |-> <<s.centreSq, s.lrad * s.lrad>>, rad |-> <<s.srad, s.lrad>>]

\* product starts at 1.0 and takes one factor 1 - discCovered(..) per shadow:
\* the empty sequence of factors is the value 1.0 itself
ProductOf(ss) == [i \in 1..Len(ss) |-> DiscCoveredOf(ss[i])]
ExactlyOne == <<>>

ShadowedIntensity(lightNum, b) ==
    /\ ctx = "alive"
    /\ lightNum \in 1..Len(m_lightSources)
    /\ b \in 1..Len(space)
    /\ shadows' = CalcShadows(m_lightSources, space, lightNum, b, <<>>)
    /\ result' = [op |-> "ShadowedIntensity", light |-> lightNum, body |-> b,
                  n |-> 0, product |-> ProductOf(shadows'), out |-> <<>>]
    /\ rendered' = NotDrawn
    /\ UNCHANGED <<ctxVars, sceneVars, m_sortedBodies, m_lightSources, lightsFrame,
                   updateFrame, tintLights, tintFrame>>

RECURSIVE GatherShadows(_, _, _, _, _)
GatherShadows(lights, bodies, b, i, acc) ==
    IF i > MaxLights \/ i > Len(lights)
    THEN acc
    ELSE GatherShadows(lights, bodies, b, i + 1, CalcShadows(lights, bodies, i, b, acc))

IsAscending(ss) ==
    \A i, j \in 1..Len(ss) : i < j => ~ShadowLess(ss[j], ss[i])

\* the reverse walk over the sorted vector, at most n steps
TakeFromBackAll(ss, n) == [i \in 1..Len(ss) |-> ss[Len(ss) + 1 - i]]

TakeFromBack(ss, n) ==
    [i \in 1..(IF n < Len(ss) THEN n ELSE Len(ss)) |-> ss[Len(ss) + 1 - i]]

\* std::sort leaves entries of equal severity in any order
PrincipalShadows(b, n) ==
    /\ ctx = "alive"
    /\ b \in 1..Len(space)
    /\ LET gathered == GatherShadows(m_lightSources, space, b, 1, <<>>)
       IN \E p \in Permutations(1..Len(gathered)) :
            LET sorted == [i \in 1..Len(gathered) |-> gathered[p[i]]]
            IN /\ IsAscending(sorted)
               /\ shadows' = sorted
               /\ result' = [op |-> "PrincipalShadows", light |-> 0, body |-> b,
                             n |-> n, product |-> <<>>,
                             out |-> TakeFromBack(sorted, n)]
    /\ rendered' = NotDrawn
    /\ UNCHANGED <<ctxVars, sceneVars, m_sortedBodies, m_lightSources, lightsFrame,
                   updateFrame, tintLights, tintFrame>>

----------------------------------------------------------------------------
\* Camera::Draw

RenderCall(a) == [op |-> "Render", body |-> a.body, points |-> <<>>]
DrawBufferCall(billboards) == [op |-> "DrawBuffer", body |-> NoBody, points |-> billboards]

IsSkippedNever(a, excludeBody) == FALSE

\* attrs->body == excludeBody
IsSkipped(a, excludeBody) == a.body = excludeBody

\* the loop over m_sortedBodies: the Render calls made, in order, and the
\* billboards collected on the way
RECURSIVE DrawLoop(_, _, _, _, _)
DrawLoop(list, i, excludeBody, calls, billboards) ==
    IF i > Len(list)
    THEN [calls |-> calls, billboards |-> billboards]
    ELSE IF IsSkipped(list[i], excludeBody)
    THEN DrawLoop(list, i + 1, excludeBody, calls, billboards)
    ELSE IF list[i].billboard
    THEN DrawLoop(list, i + 1, excludeBody, calls,
                  Append(billboards, [body |-> list[i].body,
                                      size |-> list[i].billboardSize]))
    ELSE DrawLoop(list, i + 1, excludeBody, Append(calls, RenderCall(list[i])),
                  billboards)

\* what Draw hands to the renderer after SetLights
RenderCalls(list, excludeBody) ==
    LET done == DrawLoop(list, 1, excludeBody, <<>>, <<>>)
    IN IF done.billboards # <<>>
       THEN Append(done.calls, DrawBufferCall(done.billboards))
       ELSE done.calls

\* inAtmosphere: the camera's parent is the rotating frame of a planet whose
\* air pressure at the camera is at least 0.001. Draw then calls
\* ShadowedIntensity(i, player) for every light, which leaves the last light's
\* shadows in the scratch vector.
Draw(excludeBody, inAtmosphere) ==
    /\ ctx = "alive"
    /\ Valid(m_camFrame)
    /\ inAtmosphere => PlayerOf(space) # NoBody
    /\ m_lightSources' = SelectLights(frames)
    /\ lightsFrame' = m_camFrame
    /\ shadows' = IF inAtmosphere
                  THEN CalcShadows(m_lightSources', space, Len(m_lightSources'),
                                   PlayerOf(space), <<>>)
                  ELSE shadows
    /\ rendered' = [drawn |-> TRUE, exclude |-> excludeBody,
                    lights |-> m_lightSources',
                    calls |-> RenderCalls(m_sortedBodies, excludeBody)]
    /\ result' = NoResult
    /\ UNCHANGED <<ctxVars, sceneVars, m_sortedBodies, updateFrame, tintLights,
                   tintFrame>>

----------------------------------------------------------------------------
\* Scenes

Body(type, drawLast, drawExclude, radius, camDist, inFrustum, pos) ==
    [type |-> type, drawLast |-> drawLast, drawExclude |-> drawExclude,
     clipRadius |-> radius, physRadius |-> radius,
     sysRadius |-> IF type \in {"STAR", "PLANET"} THEN radius ELSE 0,
     camDist |-> camDist, inFrustum |-> inFrustum, pos |-> pos]

SeqsUpTo(S, n) == UNION {[1..k -> S] : k \in 0..n}

\* one body of any kind, at sizes on both sides of and on the two thresholds
ClassifyScenes ==
    {<<Body(t, dl, dx, r, d, fr, <<0, 0>>)>> :
        t \in {"STAR", "PLANET", "SHIP"}, dl \in BOOLEAN, dx \in BOOLEAN,
        r \in {1, 2}, d \in {1, 4, 5}, fr \in BOOLEAN}

\* up to MaxBodies planets in view, near (rendered in full) or far (a billboard)
OrderScenes ==
    SeqsUpTo({Body("PLANET", dl, FALSE, 1, d, TRUE, <<0, 0>>) :
                dl \in BOOLEAN, d \in {1, 2}}, MaxBodies)

StarFrame(depth, body) == [depth |-> depth, sbody |-> "STAR", rot |-> FALSE, body |-> body]
PlanetFrame(depth, body) == [depth |-> depth, sbody |-> "PLANET", rot |-> FALSE, body |-> body]
RotFrame(depth, body) == [depth |-> depth, sbody |-> "STAR", rot |-> TRUE, body |-> body]

\* the frames that can follow the hierarchy t in pre-order at depth d: a star
\* or a planet with a body of its own, or the rotating frame of the star
\* whose frame is the parent
ParentAt(t, d) ==
    CHOOSE j \in 1..Len(t) :
        /\ t[j].depth = d - 1
        /\ \A k \in (j + 1)..Len(t) : t[k].depth # d - 1

FramesUnder(t, d) ==
    LET up == t[ParentAt(t, d)]
    IN {StarFrame(d, Len(t) + 1), PlanetFrame(d, Len(t) + 1)}
        \cup (IF up.sbody = "STAR" /\ ~up.rot THEN {RotFrame(d, up.body)} ELSE {})

Extensions(t) ==
    UNION {{Append(t, fr) : fr \in FramesUnder(t, d)} :
            d \in 1..(t[Len(t)].depth + 1)}

RootFrame == [depth |-> 0, sbody |-> "NONE", rot |-> FALSE, body |-> NoBody]

RECURSIVE TreesOfSize(_)
TreesOfSize(n) ==
    IF n <= 1 THEN {<<RootFrame>>}
    ELSE UNION {Extensions(t) : t \in TreesOfSize(n - 1)}

\* deep space, and a system of one star
CameraTrees == {<<RootFrame>>, <<RootFrame, StarFrame(1, 2)>>}

\* every star and planet of the scene has its frame under the root
RECURSIVE FlatFrames(_, _)
FlatFrames(bodies, i) ==
    IF i > Len(bodies) THEN <<>>
    ELSE (IF bodies[i].type = "STAR" THEN <<StarFrame(1, i)>>
          ELSE IF bodies[i].type = "PLANET" THEN <<PlanetFrame(1, i)>>
          ELSE <<>>) \o FlatFrames(bodies, i + 1)

GridPoints == {<<4 * x, 4 * y>> : x \in 0..MaxCoord, y \in 0..1}

EclipseBody(type, radius, pos) == Body(type, FALSE, FALSE, radius, 1, TRUE, pos)

\* a star (small or giant) at the origin, a planet, a moon and one more body,
\* each at a grid point of its own
EclipseScenes ==
    {<<EclipseBody("STAR", r, <<0, 0>>), EclipseBody("PLANET", 1, p2),
       EclipseBody("PLANET", 1, p3), EclipseBody(t4, 1, p4)>> :
        r \in {1, 200}, t4 \in {"PLAYER", "STAR"},
        p2 \in GridPoints \ {<<0, 0>>},
        p3 \in GridPoints \ {<<0, 0>>},
        p4 \in GridPoints \ {<<0, 0>>}}

DistinctPlaces(bodies) ==
    \A i, j \in 1..Len(bodies) : i # j => bodies[i].pos # bodies[j].pos

----------------------------------------------------------------------------
\* Specifications

\* after construction
InitContext ==
    /\ m_frame = Invalid
    /\ m_pos = 0
    /\ m_camFrame = Invalid
    /\ ctx = "alive"
    /\ camFrames = {}
    /\ begun = 0
    /\ ended = 0

InitCameraEmpty ==
    /\ m_sortedBodies = <<>>
    /\ m_lightSources = <<>>
    /\ lightsFrame = 0
    /\ updateFrame = 0
    /\ tintLights = <<>>
    /\ tintFrame = 0
    /\ rendered = NotDrawn
    /\ shadows = <<>>
    /\ result = NoResult

\* after construction and SetCameraFrame(root)
InitAttached ==
    /\ m_frame = 1
    /\ m_pos = 0
    /\ m_camFrame = Invalid
    /\ ctx = "alive"
    /\ camFrames = {}
    /\ begun = 0
    /\ ended = 0

InitContextOnly ==
    /\ InitContext
    /\ InitCameraEmpty
    /\ space = <<>>
    /\ frames = <<RootFrame>>

NextContext ==
    \/ \E f \in 1..MaxSceneFrames : SetCameraFrame(f)
    \/ \E p \in 0..MaxPos : SetCameraPosition(p)
    \/ BeginFrame
    \/ EndFrame
    \/ Destroy

\* the CameraContext alone
SpecContext == InitContextOnly /\ [][NextContext]_vars

InitCamera ==
    /\ InitAttached
    /\ InitCameraEmpty
    /\ space \in ClassifyScenes \cup OrderScenes
    /\ frames \in CameraTrees

\* the renderer's use of the camera: frames are begun and ended in turn
NextCamera ==
    \/ ~Valid(m_camFrame) /\ BeginFrame
    \/ Update
    \/ \E ex \in 0..Len(space), atmo \in BOOLEAN : Draw(ex, atmo)
    \/ Valid(m_camFrame) /\ EndFrame

\* the camera over scenes that vary the bodies
SpecCamera == InitCamera /\ [][NextCamera]_vars

InitLights ==
    /\ InitAttached
    /\ InitCameraEmpty
    /\ space = <<Body("PLANET", FALSE, FALSE, 1, 2, TRUE, <<0, 0>>)>>
    \* every hierarchy of MaxTreeFrames frames under a bodiless root
    /\ frames \in TreesOfSize(MaxTreeFrames)

\* frames begun and ended in turn, with the lights selected by Draw
NextLights ==
    \/ ~Valid(m_camFrame) /\ BeginFrame
    \/ Draw(NoBody, FALSE)
    \/ Valid(m_camFrame) /\ EndFrame

\* the light walk over scenes that vary the frame hierarchy
SpecLights == InitLights /\ [][NextLights]_vars

InitShadows ==
    /\ InitAttached
    /\ InitCameraEmpty
    /\ space \in EclipseScenes
    /\ DistinctPlaces(space)
    /\ frames \in {<<RootFrame>>, <<RootFrame>> \o FlatFrames(space, 1)}

\* one frame, in which lights are selected and eclipses are asked for
NextShadows ==
    \/ ~Valid(m_camFrame) /\ BeginFrame
    \/ \E atmo \in BOOLEAN : Draw(NoBody, atmo)
    \/ \E l \in 1..Len(m_lightSources), b \in 1..Len(space) : ShadowedIntensity(l, b)
    \/ \E b \in 1..Len(space), n \in 0..MaxShadowsWanted : PrincipalShadows(b, n)

\* the eclipse routines over scenes that vary the geometry
SpecShadows == InitShadows /\ [][NextShadows]_vars

----------------------------------------------------------------------------
\* Properties

Min(a, b) == IF a <= b THEN a ELSE b
Prefix(s, n) == [i \in 1..Min(n, Len(s)) |-> s[i]]

\* C1: after Update, of two entries x before y in the draw list, y is drawn
\* last if x is, and x is at least as far as y when both are or both are not;
\* sort_BodyAttrs is irreflexive, asymmetric and transitive on the entries.
C1_DrawOrder ==
    /\ \A i, j \in 1..Len(m_sortedBodies) :
        i < j =>
            LET x == m_sortedBodies[i]
                y == m_sortedBodies[j]
            IN /\ x.drawLast => y.drawLast
               /\ (x.drawLast = y.drawLast) => x.camDist >= y.camDist
    /\ \A a, b, c \in Range(m_sortedBodies) :
        /\ ~sort_BodyAttrs(a, a)
        /\ sort_BodyAttrs(a, b) => ~sort_BodyAttrs(b, a)
        /\ (sort_BodyAttrs(a, b) /\ sort_BodyAttrs(b, c)) => sort_BodyAttrs(a, c)

\* three entries, a near ordinary body ahead of a farther draw-last one
C1_Witness ==
    /\ Len(m_sortedBodies) = 3
    /\ \E i, j \in 1..3 :
        /\ i < j
        /\ ~m_sortedBodies[i].drawLast
        /\ m_sortedBodies[j].drawLast
        /\ m_sortedBodies[j].camDist > m_sortedBodies[i].camDist

\* C2 as claimed: the light list an Update reads was selected for the camera
\* frame that Update runs in.
C2_LightsSelectedBeforeUpdate ==
    (Valid(m_camFrame) /\ updateFrame = m_camFrame) => tintFrame = m_camFrame

\* C2 as amended: lights are selected by Draw. The list an Update reads is
\* empty when no Draw has run yet and otherwise the list a Draw selected, in
\* this camera frame or an earlier one; it tints the billboards by its first
\* light; and each Draw leaves the list selected for its own frame.
C2_LightsFromLatestDraw ==
    /\ updateFrame # 0 =>
        /\ (tintFrame = 0) <=> (tintLights = <<>>)
        /\ tintFrame # 0 => tintLights = SelectLights(frames) /\ tintFrame <= updateFrame
        /\ \A k \in 1..Len(m_sortedBodies) :
            LET a == m_sortedBodies[k]
            IN (a.billboard /\ space[a.body].type # "STAR") =>
                a.billboardColor.light =
                    IF tintLights = <<>> THEN <<"none", 0>> ELSE tintLights[1].diffuse
    /\ rendered.drawn =>
        /\ lightsFrame = m_camFrame
        /\ m_lightSources = SelectLights(frames)
        /\ m_lightSources # <<>>

\* the second frame's Update, before that frame's Draw, tinting a billboard
\* with the list of the first frame
C2_Witness ==
    /\ Valid(m_camFrame)
    /\ updateFrame = m_camFrame
    /\ tintFrame # 0
    /\ tintFrame < m_camFrame
    /\ lightsFrame = tintFrame
    /\ \E k \in 1..Len(m_sortedBodies) :
        /\ m_sortedBodies[k].billboard
        /\ m_sortedBodies[k].billboardColor.light # <<"none", 0>>

\* C5: after Update a body flagged exclude-from-draw has no entry; a body in
\* the frustum that is not flagged has an entry exactly when it is terrain or
\* its size is not below 2, and the entry is a billboard exactly when the
\* body is terrain and its size is below 8.
C5_Classification ==
    updateFrame # 0 =>
        \A i \in 1..Len(space) :
            LET b == space[i]
                entries == {k \in 1..Len(m_sortedBodies) : m_sortedBodies[k].body = i}
                size == ScreenHeight * 2 * b.clipRadius
                unit == b.camDist * FovFactor
            IN /\ Cardinality(entries) <= 1
               /\ b.drawExclude => entries = {}
               /\ (~b.drawExclude /\ b.inFrustum) =>
                    IF b.type \in {"STAR", "PLANET"}
                    THEN /\ entries # {}
                         /\ \A k \in entries :
                              m_sortedBodies[k].billboard
                                <=> (size < BILLBOARD_PIXEL_THRESHOLD * unit)
                    ELSE /\ (entries = {})
                                <=> (size < OBJECT_HIDDEN_PIXEL_THRESHOLD * unit)
                         /\ \A k \in entries : ~m_sortedBodies[k].billboard

\* a terrain body of exactly 8 pixels, rendered in full
C5_Witness ==
    /\ updateFrame # 0
    /\ \E k \in 1..Len(m_sortedBodies) :
        LET b == space[m_sortedBodies[k].body]
        IN /\ b.type = "PLANET"
           /\ ScreenHeight * 2 * b.clipRadius
                = BILLBOARD_PIXEL_THRESHOLD * b.camDist * FovFactor
           /\ ~m_sortedBodies[k].billboard

\* C6: Draw renders the entries that are no billboard and are not the
\* excluded body, each once and in list order, and then, if any billboard is
\* left, issues the one batched call holding the billboards that are not the
\* excluded body.
C6_DrawCalls ==
    rendered.drawn =>
        LET calls == rendered.calls
            kept == SelectSeq(m_sortedBodies, LAMBDA a : a.body # rendered.exclude)
            full == SelectSeq(kept, LAMBDA a : ~a.billboard)
            bills == SelectSeq(kept, LAMBDA a : a.billboard)
        IN /\ Len(calls) = Len(full) + (IF bills = <<>> THEN 0 ELSE 1)
           /\ \A i \in 1..Len(full) :
                calls[i].op = "Render" /\ calls[i].body = full[i].body
           /\ bills # <<>> =>
                LET last == calls[Len(calls)]
                IN /\ last.op = "DrawBuffer"
                   /\ Len(last.points) = Len(bills)
                   /\ \A i \in 1..Len(bills) :
                        /\ last.points[i].body = bills[i].body
                        /\ last.points[i].size = bills[i].billboardSize

\* a draw list with a billboard and two bodies rendered in full, one of them
\* excluded
C6_Witness ==
    /\ rendered.drawn
    /\ Len(m_sortedBodies) = 3
    /\ \E k \in 1..3 :
        m_sortedBodies[k].body = rendered.exclude /\ ~m_sortedBodies[k].billboard
    /\ Len(rendered.calls) = 2
    /\ rendered.calls[1].op = "Render"
    /\ rendered.calls[2].op = "DrawBuffer"

QualifyingFrames(tree) ==
    SelectSeq(Indices(Len(tree)),
              LAMBDA f : tree[f].sbody = "STAR" /\ ~tree[f].rot)

\* C7: the walk leaves at most 4 lights, those of the first qualifying star
\* frames in depth-first pre-order (the order the frames are kept in).
C7_LightCap ==
    lightsFrame # 0 =>
        LET walked == position_system_lights(frames, 1, <<>>)
            stars == QualifyingFrames(frames)
        IN /\ Len(walked) <= 4
           /\ [i \in 1..Len(walked) |-> walked[i].pos] = Prefix(stars, 4)
           /\ stars # <<>> => m_lightSources = walked

\* five star frames on three levels, four lights selected
C7_Witness ==
    /\ lightsFrame # 0
    /\ Len(QualifyingFrames(frames)) = 5
    /\ Len(m_lightSources) = 4
    /\ \E f \in 1..Len(frames) : frames[f].depth = 2
    /\ frames[Len(frames)].depth = 1

\* C8: the selected lights have distinct bodies, and each but the faked one
\* comes from the non-rotating frame of a star.
C8_OneLightPerStar ==
    lightsFrame # 0 =>
        /\ \A i, j \in 1..Len(m_lightSources) :
            i # j => m_lightSources[i].body # m_lightSources[j].body
        /\ \A i \in 1..Len(m_lightSources) :
            LET l == m_lightSources[i]
            IN l = FallbackLight
               \/ /\ l.pos \in 1..Len(frames)
                  /\ frames[l.pos].sbody = "STAR"
                  /\ ~frames[l.pos].rot
                  /\ frames[l.pos].body = l.body

\* a star with a rotating frame, and a planet: one light
C8_Witness ==
    /\ lightsFrame # 0
    /\ Len(m_lightSources) = 1
    /\ \E f, g, h \in 1..Len(frames) :
        /\ frames[f].sbody = "STAR" /\ ~frames[f].rot
        /\ frames[g].rot /\ frames[g].body = frames[f].body
        /\ frames[h].sbody = "PLANET"
        /\ m_lightSources[1].body = frames[f].body

NoStarFrame(tree) ==
    \A f \in 1..Len(tree) : ~(tree[f].sbody = "STAR" /\ ~tree[f].rot)

\* C3: after Draw the light list is not empty; when the hierarchy has no
\* star frame it is the one white light with no body; and ShadowedIntensity
\* for a light with no body finds no shadow and returns exactly 1.
C3_FallbackLight ==
    /\ lightsFrame # 0 => Len(m_lightSources) >= 1
    /\ (lightsFrame # 0 /\ NoStarFrame(frames)) =>
        /\ Len(m_lightSources) = 1
        /\ m_lightSources[1].body = NoBody
        /\ m_lightSources[1].diffuse = White
    /\ (result.op = "ShadowedIntensity" /\ m_lightSources[result.light].body = NoBody) =>
        /\ shadows = <<>>
        /\ result.product = ExactlyOne

\* ShadowedIntensity for a planet under the faked light, in a scene where a
\* star and a moon stand in line with the planet
C3_Witness ==
    /\ result.op = "ShadowedIntensity"
    /\ NoStarFrame(frames)
    /\ Len(m_lightSources) = 1
    /\ m_lightSources[1].body = NoBody
    /\ space[result.body].type = "PLANET"
    /\ \E i, j \in 1..Len(space) :
        /\ space[i].type = "STAR"
        /\ j # result.body
        /\ space[j].type = "PLANET"
        /\ space[i].pos[2] = space[j].pos[2]
        /\ space[j].pos[2] = space[result.body].pos[2]

ShadowsUnder(lights, bodies, b) ==
    UNION {Range(CalcShadows(lights, bodies, i, b, <<>>)) :
             i \in 1..Min(4, Len(lights))}

ShadowCount(lights, bodies, b, i) ==
    IF i > Min(4, Len(lights)) THEN 0
    ELSE Len(CalcShadows(lights, bodies, i, b, <<>>))

\* C4: PrincipalShadows(b, n) returns at most n descriptors, none less severe
\* than a later one, each produced by CalcShadows for b under one of the first
\* 4 lights; it returns all of them when there are no more than n.
C4_PrincipalShadows ==
    result.op = "PrincipalShadows" =>
        LET out == result.out
            all == ShadowsUnder(m_lightSources, space, result.body)
            total == ShadowCount(m_lightSources, space, result.body, 1)
                       + ShadowCount(m_lightSources, space, result.body, 2)
                       + ShadowCount(m_lightSources, space, result.body, 3)
                       + ShadowCount(m_lightSources, space, result.body, 4)
        IN /\ Len(out) <= result.n
           /\ Len(out) = Min(result.n, total)
           /\ \A i, j \in 1..Len(out) : i < j => ~ShadowLess(out[i], out[j])
           /\ Range(out) \subseteq all
           /\ total <= result.n => Range(out) = all

\* two shadows of different severity on the body, one asked for: the more
\* severe one is returned
C4_Witness ==
    /\ result.op = "PrincipalShadows"
    /\ result.n = 1
    /\ Len(shadows) = 2
    /\ ShadowLess(shadows[1], shadows[2])
    /\ result.out = <<shadows[2]>>

\* the tests of CalcShadows for body o against target b under light body lb
Eclipses(bodies, lb, b, o) ==
    LET L == Minus(bodies[lb].pos, bodies[b].pos)
        P == Minus(bodies[o].pos, bodies[b].pos)
        LL == Dot(L, L)
        LP == Dot(L, P)
        PP == Dot(P, P)
        rb == IF bodies[b].type \in {"STAR", "PLANET"}
              THEN bodies[b].sysRadius ELSE bodies[b].physRadius
        ro == bodies[o].sysRadius
        rl == bodies[lb].physRadius
        reach == (rb + ro) * LL + rl * LP
    IN /\ bodies[o].type \in {"PLANET", "STAR"}
       /\ o # b
       /\ o # lb
       /\ 0 < LP
       /\ LP <= LL
       /\ 100 * ro * LL >= rl * LP
       /\ (PP * LL - LP * LP) * LL < reach * reach

\* C9: every descriptor CalcShadows(light, target) produces comes from a
\* planet or star that is neither the target nor the light's body and lies
\* between them along the light direction; a body yields at most one
\* descriptor; and the bodies that pass all tests yield one each.
C9_ShadowSources ==
    (result.op = "ShadowedIntensity" /\ m_lightSources[result.light].body # NoBody) =>
        LET b == result.body
            lb == m_lightSources[result.light].body
            L == Minus(space[lb].pos, space[b].pos)
        IN /\ \A k \in 1..Len(shadows) :
                LET o == shadows[k].occluder
                    P == Minus(space[o].pos, space[b].pos)
                IN /\ space[o].type \in {"PLANET", "STAR"}
                   /\ o # b
                   /\ o # lb
                   /\ 0 < Dot(L, P)
                   /\ Dot(L, P) <= Dot(L, L)
                   /\ \A k2 \in 1..Len(shadows) :
                        k2 # k => shadows[k2].occluder # o
           /\ {shadows[k].occluder : k \in 1..Len(shadows)}
                = {o \in 1..Len(space) : Eclipses(space, lb, b, o)}

\* a moon between a planet and its star throws the one shadow on the planet,
\* with a further planet behind the target throwing none
C9_Witness ==
    /\ result.op = "ShadowedIntensity"
    /\ m_lightSources[result.light].body # NoBody
    /\ space[m_lightSources[result.light].body].type = "STAR"
    /\ space[result.body].type = "PLANET"
    /\ Len(shadows) = 1
    /\ space[shadows[1].occluder].type = "PLANET"

\* C10: a camera frame exists exactly from a BeginFrame to the EndFrame that
\* follows it, so the two alternate; BeginFrame with a camera frame active,
\* EndFrame with none, and either with no frame set, fail an assertion and
\* change nothing; destroying the context ends an active camera frame, and
\* no camera frame is left once it is destroyed.
C10_Lifecycle ==
    /\ [](/\ begun - ended \in {0, 1}
          /\ Valid(m_camFrame) <=> (begun = ended + 1)
          /\ {c.id : c \in camFrames} = (IF Valid(m_camFrame) THEN {m_camFrame} ELSE {})
          /\ ctx = "destroyed" => camFrames = {})
    /\ [][/\ ctx' = "aborted" =>
                UNCHANGED <<m_frame, m_pos, m_camFrame, camFrames, begun, ended>>
          /\ (BeginFrame /\ (Valid(m_camFrame) \/ ~Valid(m_frame))) => ctx' = "aborted"
          /\ (EndFrame /\ (~Valid(m_camFrame) \/ ~Valid(m_frame))) => ctx' = "aborted"
          /\ begun' # begun =>
                /\ Valid(m_frame)
                /\ ~Valid(m_camFrame)
                /\ Valid(m_camFrame')
                /\ ended' = ended
          /\ ended' # ended =>
                /\ Valid(m_frame)
                /\ Valid(m_camFrame)
                /\ ~Valid(m_camFrame')
                /\ begun' = begun
          /\ (Destroy /\ Valid(m_camFrame)) =>
                /\ ended' = ended + 1
                /\ camFrames' = {}
                /\ ctx' = "destroyed"]_vars

\* the context destroyed after a second BeginFrame, both frames ended
C10_Witness ==
    /\ ctx = "destroyed"
    /\ begun = 2
    /\ ended = 2
    /\ camFrames = {}

====
